---- MODULE Spec2Model ----
(***************************************************************************)
(* The asynchronous media-processing pipeline of the STT application:      *)
(* the AudioFile rows, the Celery executions of process_audio_file, the    *)
(* per-user queue hand-off, the periodic sweep start_next_pending_jobs,    *)
(* the reaper check_and_recover_stuck_tasks and the intake / delete views. *)
(***************************************************************************)
EXTENDS Integers, Sequences, FiniteSets, TLC

\* ------------------------------------------------------------------ bounds
\* Rows ever created (AudioFile ids 1..MaxJobs).
MaxJobs == 2
\* Executions ever enqueued (Celery task ids 1..MaxTasks).
MaxTasks == 2
\* Chunk files one segmentation may produce.
MaxChunks == 3
\* Users of the application.
NumUsers == 2
\* Silence ends ffmpeg reports for one track.
MaxSilence == 3
\* Status polls of one adapter call whose answers are drawn freely; the polls
\* after them find the conversion still running.
MaxPolls == 2

VARIABLES
    jobs,      \* AudioFile table: id -> row (the domain is the set of stored rows)
    nextId,    \* next AudioFile primary key (ids follow created_at)
    tasks,     \* Celery executions of process_audio_file: task id -> frame
    nextTask,  \* next Celery task id
    fs,        \* files on disk
    revoked,   \* task ids a revoke call was issued for
    reaper,    \* rows check_and_recover_stuck_tasks still has to visit
    split,     \* a call of MediaService.smart_split_audio: its arguments and locals
    call       \* a call of a vendor adapter's process(): its inputs and its outcome

vars == <<jobs, nextId, tasks, nextTask, fs, revoked, reaper, split, call>>

Users == 1..NumUsers

\* ------------------------------------------------------------------ rows
\* AudioFile.ModelChoices
ModelChoices == {"eboo", "vira", "scribe"}

\* AudioFile.Status
Terminal == {"completed", "failed"}

\* A row as AudioFile.objects.create(user=u, status=st) stores it: the other
\* columns take the model's defaults (NULL text columns, model_name "eboo").
\* transcript_text is a sequence of characters, <<>> when NULL.
NewRow(u, st) ==
    [user |-> u, status |-> st, task_id |-> 0,
     audio_file |-> FALSE, source_url |-> FALSE, is_video |-> FALSE,
     model_name |-> "eboo", transcript_text |-> <<>>,
     summary_text |-> "null", error_message |-> "null"]

\* The local variable audio_file = None of process_audio_file.
NoRow == [NewRow(0, "none") EXCEPT !.model_name = ""]

\* Paths. A chunk file is named after the file it was cut from:
\* <base>_chunk_<i>.wav in the same directory.
NoFile == [k |-> "none", of |-> "", j |-> 0, t |-> 0, i |-> 0]
SrcFile(j) == [k |-> "src", of |-> "", j |-> j, t |-> 0, i |-> 0]
TmpFile(t) == [k |-> "tmp", of |-> "", j |-> 0, t |-> t, i |-> 0]
WavFile(t) == [k |-> "wav", of |-> "", j |-> 0, t |-> t, i |-> 0]
ChunkFile(p, i) == [k |-> "chunk", of |-> p.k, j |-> p.j, t |-> p.t, i |-> i]

\* A filter on the status alone, over the rows of every user.
RowsOfAnyUser(u, st) == {j \in DOMAIN jobs : jobs[j].status = st}

\* AudioFile.objects.filter(user_id=u, status=st)
Rows(u, st) == {j \in DOMAIN jobs : jobs[j].user = u /\ jobs[j].status = st}

\* .order_by("created_at").first() of a non-empty set of rows
Oldest(S) == CHOOSE j \in S : \A k \in S : j <= k

\* instance.save(update_fields=fs): an UPDATE of the named columns; it raises
\* DatabaseError when the row is gone, and then nothing is stored.
SaveFields(db, id, row, fields) ==
    IF id \in DOMAIN db
    THEN [db EXCEPT ![id] = [f \in DOMAIN row |->
                                IF f \in fields THEN row[f] ELSE db[id][f]]]
    ELSE db

\* instance.save(): an UPDATE of every column from the in-memory instance, and
\* an INSERT of the instance when the UPDATE matched no row.
SaveAll(db, id, row) ==
    IF id \in DOMAIN db THEN [db EXCEPT ![id] = row] ELSE db @@ (id :> row)

\* ------------------------------------------------------------------ executions
\* The frame of one execution: its position and the locals of process_audio_file.
NewTask(f) ==
    [file |-> f, pc |-> "queued", af |-> NoRow,
     file_path |-> NoFile, temp_path |-> NoFile, extracted |-> NoFile,
     chunks |-> <<>>, bound |-> FALSE, results |-> <<>>, texts |-> <<>>,
     short |-> {}, duration |-> 0, segmented |-> FALSE]

\* process_audio_file.delay(id): a new execution waiting in the broker's queue.
Delay(ts, h, f) == ts @@ (h :> NewTask(f))

Live(t) == tasks[t].pc \notin {"done", "dead"}

\* AsyncResult(task_id).state. The settings do not enable task_track_started,
\* so an execution that is queued or running reports PENDING, as an unknown id.
AsyncResultState(h) ==
    IF h \notin DOMAIN tasks THEN "PENDING"
    ELSE IF h \in revoked THEN "REVOKED"
    ELSE IF tasks[h].pc = "done" THEN "SUCCESS"
    ELSE IF tasks[h].pc = "dead" THEN "FAILURE"
    ELSE "PENDING"

\* No call of smart_split_audio is followed.
NoSplit ==
    [pc |-> "idle", total_duration |-> 0, silence_points |-> <<>>,
     max_chunk_sec |-> 0, min_chunk_sec |-> 0, start |-> 0, cuts |-> <<>>,
     paths |-> <<>>]

\* No call of an adapter is followed.
NoCall ==
    [pc |-> "idle", adapter |-> "", token |-> FALSE, exists |-> FALSE,
     net |-> <<>>, sent |-> 0, result |-> [kind |-> "none", text |-> <<>>]]

\* ------------------------------------------------------------------ intake
Init ==
    /\ jobs = <<>>
    /\ nextId = 1
    /\ tasks = <<>>
    /\ nextTask = 1
    /\ fs = {}
    /\ revoked = {}
    /\ reaper = <<>>
    /\ split = NoSplit
    /\ call = NoCall

\* upload_file, step 1: the row is created before the upload is parsed.
UploadCreate(u) ==
    /\ jobs' = jobs @@ (nextId :> NewRow(u, "uploading"))
    /\ nextId' = nextId + 1
    /\ UNCHANGED <<tasks, nextTask, fs, revoked, reaper, split, call>>

\* upload_file, steps 2-7 for the row j it created.
UploadFinish(j, valid, hasFile, video, model) ==
    /\ j \in DOMAIN jobs
    /\ jobs[j].status = "uploading"
    /\ IF ~valid
       THEN /\ jobs' = SaveFields(jobs, j,
                          [jobs[j] EXCEPT !.status = "failed",
                                          !.error_message = "upload"],
                          {"status", "error_message"})
            /\ UNCHANGED <<tasks, nextTask, fs>>
       ELSE LET u == jobs[j].user
                saved == [jobs[j] EXCEPT !.audio_file = hasFile,
                                         !.model_name = model,
                                         !.is_video = hasFile /\ video]
                user_has_active_job ==
                    (Rows(u, "pending") \cup Rows(u, "processing")) \ {j} # {}
                pending == [saved EXCEPT !.status = "pending"]
            IN  /\ fs' = IF hasFile THEN fs \cup {SrcFile(j)} ELSE fs
                /\ IF ~user_has_active_job
                   THEN /\ tasks' = Delay(tasks, nextTask, j)
                        /\ nextTask' = nextTask + 1
                        /\ jobs' = [jobs EXCEPT ![j] =
                                       [pending EXCEPT !.task_id = nextTask]]
                   ELSE /\ jobs' = [jobs EXCEPT ![j] = pending]
                        /\ UNCHANGED <<tasks, nextTask>>
    /\ UNCHANGED <<nextId, revoked, reaper, split, call>>

\* ------------------------------------------------------------------ texts
\* The text a vendor returns for chunk i, when it returns one.
Words == <<"w1", "w2", "w3", "w4", "w5">>

\* What one adapter call can end in: a dict with "text", a dict with "error",
\* a dict with "exception", or an exception raised out of process().
Result(kind, text) == [kind |-> kind, text |-> text]

\* EbooService.process strips the Output itself and has no except clause.
EbooResults(i) ==
    {Result("text", <<>>), Result("text", <<Words[i]>>),
     Result("error", <<>>), Result("raise", <<>>)}

\* ScribeService.process never returns an empty text: a completed generation
\* without content yields a placeholder sentence as the text.
ScribeResults(i) ==
    {Result("text", <<Words[i]>>), Result("text", <<" ", Words[i], " ">>),
     Result("text", <<" ">>), Result("text", <<"placeholder">>),
     Result("error", <<>>), Result("exception", <<>>), Result("raise", <<>>)}

ViraResults(i) ==
    {Result("text", <<>>), Result("text", <<" ">>),
     Result("text", <<Words[i]>>), Result("text", <<" ", Words[i], " ">>),
     Result("error", <<>>), Result("exception", <<>>), Result("raise", <<>>)}

\* The if/elif chain on the model name (tasks.py, step 5).
AdapterResults(model, i) ==
    CASE model = "eboo" -> EbooResults(i)
      [] model = "scribe" -> ScribeResults(i)
      [] model = "vira" -> ViraResults(i)
      [] OTHER -> {Result("error", <<>>)}

\* str.strip()
RECURSIVE LStrip(_)
LStrip(s) == IF s # <<>> /\ Head(s) = " " THEN LStrip(Tail(s)) ELSE s

RECURSIVE RStrip(_)
RStrip(s) ==
    IF s # <<>> /\ s[Len(s)] = " " THEN RStrip(SubSeq(s, 1, Len(s) - 1)) ELSE s

Strip(s) == RStrip(LStrip(s))

\* "\n\n".join(texts)
RECURSIVE Join(_)
Join(texts) ==
    IF texts = <<>> THEN <<>>
    ELSE IF Len(texts) = 1 THEN texts[1]
    ELSE texts[1] \o <<"\n", "\n">> \o Join(Tail(texts))

\* ------------------------------------------------------------------ process_audio_file
\* The frame of an execution that has returned: its locals are gone.
Finished(t, pc) == [NewTask(tasks[t].file) EXCEPT !.pc = pc]

\* A handler that marks the job FAILED and forgets the message.
UnexpectedNoMessage(af) ==
    IF af.status # "failed" THEN [af EXCEPT !.status = "failed"] ELSE af

\* except Exception (the outermost handler): the job is forced to FAILED unless
\* the in-memory instance already is FAILED.
Unexpected(af) ==
    IF af.status # "failed"
    THEN [af EXCEPT !.status = "failed", !.error_message = "unknown"]
    ELSE af

\* 1-2. Load the row, record the task id, set PROCESSING.
TaskStart(t) ==
    /\ t \in DOMAIN tasks
    /\ tasks[t].pc = "queued"
    /\ LET f == tasks[t].file IN
       IF f \notin DOMAIN jobs
       THEN /\ tasks' = [tasks EXCEPT ![t] = Finished(t, "done")]
            /\ UNCHANGED jobs
       ELSE LET af == [jobs[f] EXCEPT !.task_id = t, !.status = "processing"]
            IN  /\ jobs' = SaveFields(jobs, f, af, {"task_id", "status"})
                /\ tasks' = [tasks EXCEPT ![t].af = af, ![t].pc = "resolve"]
    /\ UNCHANGED <<nextId, nextTask, fs, revoked, reaper, split, call>>

\* 3. Resolve file_path. dl is how download_temp_file ends: "ok", "fail"
\* (the request fails before the temporary file is made) or "partial" (the
\* body breaks off after NamedTemporaryFile(delete=False) made the file).
TaskResolve(t, dl) ==
    /\ t \in DOMAIN tasks
    /\ tasks[t].pc = "resolve"
    /\ LET f == tasks[t].file
           af == tasks[t].af
           next == IF af.is_video THEN "extract" ELSE "split"
       IN
       IF af.audio_file
       THEN /\ dl = "ok"
            /\ tasks' = [tasks EXCEPT ![t].file_path = SrcFile(f), ![t].pc = next]
            /\ UNCHANGED <<jobs, fs>>
       ELSE IF af.source_url
       THEN IF dl = "ok"
            THEN /\ tasks' = [tasks EXCEPT ![t].temp_path = TmpFile(t),
                                           ![t].file_path = TmpFile(t),
                                           ![t].pc = next]
                 /\ fs' = fs \cup {TmpFile(t)}
                 /\ UNCHANGED jobs
            ELSE LET failed == [af EXCEPT !.status = "failed",
                                          !.error_message = "download"]
                 IN  /\ jobs' = SaveFields(jobs, f, failed,
                                           {"status", "error_message"})
                     /\ tasks' = [tasks EXCEPT ![t].af = failed,
                                               ![t].pc = "cleanup"]
                     /\ fs' = IF dl = "partial" THEN fs \cup {TmpFile(t)} ELSE fs
       ELSE LET failed == [af EXCEPT !.status = "failed",
                                     !.error_message = "nosource"]
            IN  /\ dl = "ok"
                /\ jobs' = SaveAll(jobs, f, failed)
                /\ tasks' = [tasks EXCEPT ![t].af = Unexpected(failed),
                                          ![t].pc = "cleanup"]
                /\ UNCHANGED fs
    /\ UNCHANGED <<nextId, nextTask, revoked, reaper, split, call>>

\* 4. Video: MediaService.extract_audio. ffmpeg needs its input on disk; when
\* it fails it may leave its output file behind ("partial").
TaskExtract(t, ex) ==
    /\ t \in DOMAIN tasks
    /\ tasks[t].pc = "extract"
    /\ LET f == tasks[t].file
           af == tasks[t].af
       IN
       IF ex = "ok"
       THEN /\ tasks[t].file_path \in fs
            /\ tasks' = [tasks EXCEPT ![t].extracted = WavFile(t),
                                      ![t].file_path = WavFile(t),
                                      ![t].pc = "split"]
            /\ fs' = fs \cup {WavFile(t)}
            /\ UNCHANGED jobs
       ELSE LET failed == [af EXCEPT !.status = "failed",
                                     !.error_message = "video"]
            IN  /\ jobs' = SaveFields(jobs, f, failed, {"status", "error_message"})
                /\ tasks' = [tasks EXCEPT ![t].af = failed, ![t].pc = "cleanup"]
                /\ fs' = IF ex = "partial" /\ tasks[t].file_path \in fs
                         THEN fs \cup {WavFile(t)} ELSE fs
    /\ UNCHANGED <<nextId, nextTask, revoked, reaper, split, call>>

\* MAX_CHUNK_SECONDS and its default
ViraMaxChunk == 300
EbooMaxChunk == 480
ScribeMaxChunk == 600

\* model = audio_file.model_name or EBOO
ModelOf(af) == IF af.model_name = "" THEN "eboo" ELSE af.model_name

\* MAX_CHUNK_SECONDS.get(model, 480)
MaxChunkSeconds(model) ==
    CASE model = "vira" -> ViraMaxChunk
      [] model = "eboo" -> EbooMaxChunk
      [] model = "scribe" -> ScribeMaxChunk
      [] OTHER -> EbooMaxChunk

\* Durations ffprobe may report, in seconds; 0 stands for any value below 1.0,
\* which is also what get_audio_duration returns when ffprobe prints nothing.
Durations ==
    {0, 1} \cup {ViraMaxChunk, ViraMaxChunk + 1, EbooMaxChunk, EbooMaxChunk + 1,
                 ScribeMaxChunk, ScribeMaxChunk + 1}

\* The chunk files smart_split_audio writes for input p: p_chunk_1 .. p_chunk_n.
ChunkFiles(p, n) == [i \in 1..n |-> ChunkFile(p, i)]

Range(s) == {s[i] : i \in DOMAIN s}

\* A test that sends a file of exactly the threshold to the segmenter.
NeedsSplitAtThreshold(duration, max_chunk) == duration >= max_chunk

\* if duration > max_chunk
NeedsSplit(duration, max_chunk) == duration > max_chunk

\* A validation that keeps every file, whatever its duration.
ValidChunksKeepsAll(files, short) == files

\* The files that pass "dur < 1.0: remove, else keep": the test the segmenter
\* applies to each file it exports and step 4.6 applies to each chunk. short is
\* the set of files that probe below 1.0 s.
ValidChunks(files, short) == SelectSeq(files, LAMBDA c : c \notin short)

\* 4.5-4.6. Probe the duration, split a long file, validate the chunks.
\* dur is the probed duration of file_path when it is on disk, n the number of
\* chunk files the segmenter exports, raised whether it raises after exporting
\* them, tiny the numbers of the exported files that are shorter than 1.0 s.
TaskSplit(t, dur, n, raised, tiny) ==
    /\ t \in DOMAIN tasks
    /\ tasks[t].pc = "split"
    /\ tiny \subseteq 1..n
    /\ LET f == tasks[t].file
           af == tasks[t].af
           p == tasks[t].file_path
           duration == IF p \in fs THEN dur ELSE 0
           max_chunk == MaxChunkSeconds(ModelOf(af))
           nochunks == [af EXCEPT !.status = "failed",
                                  !.error_message = "nochunks"]
           exported == ChunkFiles(p, n)
           short == {exported[i] : i \in tiny}
           paths == ValidChunks(exported, short)
           whole == ValidChunks(<<p>>, IF duration >= 1 THEN {} ELSE {p})
       IN
       IF NeedsSplit(duration, max_chunk)
       THEN /\ fs' = (fs \cup Range(exported)) \ (Range(exported) \ Range(paths))
            /\ IF raised
               THEN /\ jobs' = SaveAll(jobs, f, Unexpected(af))
                    /\ tasks' = [tasks EXCEPT ![t].af = Unexpected(af),
                                              ![t].short = short,
                                              ![t].duration = duration,
                                              ![t].segmented = TRUE,
                                              ![t].pc = "cleanup"]
               ELSE IF paths = <<>>
               THEN /\ jobs' = SaveFields(jobs, f, nochunks,
                                          {"status", "error_message"})
                    /\ tasks' = [tasks EXCEPT ![t].af = nochunks,
                                              ![t].bound = TRUE,
                                              ![t].short = short,
                                              ![t].duration = duration,
                                              ![t].segmented = TRUE,
                                              ![t].pc = "cleanup"]
               ELSE /\ tasks' = [tasks EXCEPT ![t].chunks = paths,
                                              ![t].bound = TRUE,
                                              ![t].short = short,
                                              ![t].duration = duration,
                                              ![t].segmented = TRUE,
                                              ![t].pc = "chunk"]
                    /\ UNCHANGED jobs
       ELSE /\ n = 0 /\ ~raised
            /\ IF p \in fs /\ whole # <<>>
               THEN /\ tasks' = [tasks EXCEPT ![t].chunks = whole,
                                              ![t].bound = TRUE,
                                              ![t].short = IF duration >= 1
                                                           THEN {} ELSE {p},
                                              ![t].duration = duration,
                                              ![t].pc = "chunk"]
                    /\ UNCHANGED <<jobs, fs>>
               ELSE /\ fs' = fs \ {p}
                    /\ jobs' = SaveFields(jobs, f, nochunks,
                                          {"status", "error_message"})
                    /\ tasks' = [tasks EXCEPT ![t].af = nochunks,
                                              ![t].bound = TRUE,
                                              ![t].short = IF p \in fs
                                                           THEN {p} ELSE {},
                                              ![t].duration = duration,
                                              ![t].pc = "cleanup"]
    /\ UNCHANGED <<nextId, nextTask, revoked, reaper, split, call>>

\* 5. One iteration of the chunk loop: chunk number Len(results) + 1.
\* A chunk that probes below 1.0 s, as one whose file is gone does, is skipped
\* without a call.
TaskChunk(t, r) ==
    /\ t \in DOMAIN tasks
    /\ tasks[t].pc = "chunk"
    /\ LET f == tasks[t].file
           af == tasks[t].af
           idx == Len(tasks[t].results) + 1
           last == idx = Len(tasks[t].chunks)
           called == /\ tasks[t].chunks[idx] \in fs
                     /\ tasks[t].chunks[idx] \notin tasks[t].short
           chunk_text == Strip(r.text)
       IN
       /\ IF called THEN r \in AdapterResults(ModelOf(af), idx)
                    ELSE r = Result("skipped", <<>>)
       /\ IF r.kind = "raise"
          THEN /\ jobs' = SaveAll(jobs, f, Unexpected(af))
               /\ tasks' = [tasks EXCEPT ![t].af = Unexpected(af),
                                         ![t].results = Append(@, r),
                                         ![t].pc = "cleanup"]
          ELSE /\ tasks' = [tasks EXCEPT
                    ![t].results = Append(@, r),
                    ![t].texts = IF r.kind = "text" /\ chunk_text # <<>>
                                 THEN Append(@, chunk_text) ELSE @,
                    ![t].pc = IF last THEN "aggregate" ELSE "chunk"]
               /\ UNCHANGED jobs
    /\ UNCHANGED <<nextId, nextTask, fs, revoked, reaper, split, call>>

\* HUMAN_ERRORS["empty"] as a text.
HumanErrorEmpty == <<"HUMAN_ERRORS.empty">>

\* An aggregation whose success path stores the status without the transcript.
TaskAggregateStatusOnly(t) ==
    /\ t \in DOMAIN tasks
    /\ tasks[t].pc = "aggregate"
    /\ LET f == tasks[t].file
           af == tasks[t].af
           empty == [af EXCEPT !.status = "failed", !.error_message = "empty"]
           done == [af EXCEPT !.transcript_text = Join(tasks[t].texts),
                              !.status = "completed",
                              !.error_message = "null"]
       IN
       IF tasks[t].texts = <<>>
       THEN /\ jobs' = SaveFields(jobs, f, empty, {"status", "error_message"})
            /\ tasks' = [tasks EXCEPT ![t].af = empty, ![t].pc = "cleanup"]
       ELSE /\ jobs' = SaveFields(jobs, f, done, {"status", "error_message"})
            /\ tasks' = [tasks EXCEPT ![t].af = done, ![t].pc = "summarize"]
    /\ UNCHANGED <<nextId, nextTask, fs, revoked, reaper, split, call>>

\* An aggregation that raises on an empty result instead of storing the
\* 'empty result' failure, so that the outermost handler stores its own.
TaskAggregateRaises(t) ==
    /\ t \in DOMAIN tasks
    /\ tasks[t].pc = "aggregate"
    /\ LET f == tasks[t].file
           af == tasks[t].af
           done == [af EXCEPT !.transcript_text = Join(tasks[t].texts),
                              !.status = "completed",
                              !.error_message = "null"]
       IN
       IF tasks[t].texts = <<>>
       THEN /\ jobs' = SaveAll(jobs, f, Unexpected(af))
            /\ tasks' = [tasks EXCEPT ![t].af = Unexpected(af), ![t].pc = "cleanup"]
       ELSE /\ jobs' = SaveAll(jobs, f, done)
            /\ tasks' = [tasks EXCEPT ![t].af = done, ![t].pc = "summarize"]
    /\ UNCHANGED <<nextId, nextTask, fs, revoked, reaper, split, call>>

\* 6-7. Validate the aggregated result and store it.
TaskAggregate(t) ==
    /\ t \in DOMAIN tasks
    /\ tasks[t].pc = "aggregate"
    /\ LET f == tasks[t].file
           af == tasks[t].af
           empty == [af EXCEPT !.status = "failed", !.error_message = "empty"]
           final_text == IF Join(tasks[t].texts) = <<>> THEN HumanErrorEmpty
                         ELSE Join(tasks[t].texts)
           done == [af EXCEPT !.transcript_text = final_text,
                              !.status = "completed",
                              !.error_message = "null"]
       IN
       IF tasks[t].texts = <<>>
       THEN /\ jobs' = SaveFields(jobs, f, empty, {"status", "error_message"})
            /\ tasks' = [tasks EXCEPT ![t].af = empty, ![t].pc = "cleanup"]
       ELSE /\ jobs' = SaveAll(jobs, f, done)
            /\ tasks' = [tasks EXCEPT ![t].af = done, ![t].pc = "summarize"]
    /\ UNCHANGED <<nextId, nextTask, fs, revoked, reaper, split, call>>

\* A summarization without its own try/except: a failure reaches the outermost
\* handler, which marks the job FAILED.
TaskSummarizeUnguarded(t, s) ==
    /\ t \in DOMAIN tasks
    /\ tasks[t].pc = "summarize"
    /\ LET f == tasks[t].file
           af == tasks[t].af
           summed == [af EXCEPT !.summary_text = "summary"]
       IN
       IF s = "text"
       THEN /\ jobs' = SaveFields(jobs, f, summed, {"summary_text"})
            /\ tasks' = [tasks EXCEPT ![t].af = summed, ![t].pc = "cleanup"]
       ELSE /\ jobs' = SaveAll(jobs, f, Unexpected(af))
            /\ tasks' = [tasks EXCEPT ![t].af = Unexpected(af), ![t].pc = "cleanup"]
    /\ UNCHANGED <<nextId, nextTask, fs, revoked, reaper, split, call>>

\* 8. Summarize: s is "text" (a summary came back), "empty" or "raised".
TaskSummarize(t, s) ==
    /\ t \in DOMAIN tasks
    /\ tasks[t].pc = "summarize"
    /\ LET f == tasks[t].file
           af == tasks[t].af
           summed == [af EXCEPT !.summary_text = "summary"]
       IN
       IF s = "text"
       THEN /\ jobs' = SaveFields(jobs, f, summed, {"summary_text"})
            /\ tasks' = [tasks EXCEPT ![t].af = summed, ![t].pc = "cleanup"]
       ELSE /\ tasks' = [tasks EXCEPT ![t].pc = "cleanup"]
            /\ UNCHANGED jobs
    /\ UNCHANGED <<nextId, nextTask, fs, revoked, reaper, split, call>>

\* finally, part A: remove the extracted audio, the downloaded file, and the
\* chunks when there is more than one.
CleanedUp(t) ==
    LET fr == tasks[t]
        chunkFiles == IF fr.bound /\ Len(fr.chunks) > 1
                      THEN Range(fr.chunks) \ {fr.file_path} ELSE {}
    IN  (({fr.extracted, fr.temp_path} \ {NoFile}) \cup chunkFiles)

\* A cleanup after which the execution returns without the queue hand-off.
TaskCleanupReturns(t) ==
    /\ t \in DOMAIN tasks
    /\ tasks[t].pc = "cleanup"
    /\ fs' = fs \ CleanedUp(t)
    /\ tasks' = [tasks EXCEPT ![t] = Finished(t, "done")]
    /\ UNCHANGED <<jobs, nextId, nextTask, revoked, reaper, split, call>>

TaskCleanup(t) ==
    /\ t \in DOMAIN tasks
    /\ tasks[t].pc = "cleanup"
    /\ fs' = fs \ CleanedUp(t)
    /\ tasks' = [tasks EXCEPT ![t].pc = "handoff"]
    /\ UNCHANGED <<jobs, nextId, nextTask, revoked, reaper, split, call>>

\* finally, part B: the per-user queue hand-off. ok is whether the broker
\* accepts the new execution; when delay() raises, the error is logged.
TaskHandoff(t, ok) ==
    /\ t \in DOMAIN tasks
    /\ tasks[t].pc = "handoff"
    /\ LET f == tasks[t].file
           u == tasks[t].af.user
           other_active_tasks == Rows(u, "processing") \ {f} # {}
           next_file == Oldest(Rows(u, "pending"))
           processing == [jobs EXCEPT ![next_file].status = "processing"]
       IN
       IF other_active_tasks \/ Rows(u, "pending") = {}
       THEN /\ ok
            /\ UNCHANGED <<jobs, nextTask>>
            /\ tasks' = [tasks EXCEPT ![t] = Finished(t, "done")]
       ELSE IF ok
       THEN /\ jobs' = [processing EXCEPT ![next_file].task_id = nextTask]
            /\ tasks' = Delay([tasks EXCEPT ![t] = Finished(t, "done")],
                              nextTask, next_file)
            /\ nextTask' = nextTask + 1
       ELSE /\ jobs' = processing
            /\ tasks' = [tasks EXCEPT ![t] = Finished(t, "done")]
            /\ UNCHANGED nextTask
    /\ UNCHANGED <<nextId, fs, revoked, reaper, split, call>>

\* ------------------------------------------------------------------ the execution system
\* A revoke with terminate issued from outside the application (the views issue
\* none): a queued execution is discarded, a running one is killed where it
\* stands, without running its finally block.
RevokeTask(t) ==
    /\ t \in DOMAIN tasks
    /\ Live(t)
    /\ revoked' = revoked \cup {t}
    /\ tasks' = [tasks EXCEPT ![t] = Finished(t, "dead")]
    /\ UNCHANGED <<jobs, nextId, nextTask, fs, reaper, split, call>>

\* The worker process running t is lost (crash, restart).
WorkerLost(t) ==
    /\ t \in DOMAIN tasks
    /\ Live(t)
    /\ tasks[t].pc # "queued"
    /\ tasks' = [tasks EXCEPT ![t] = Finished(t, "dead")]
    /\ UNCHANGED <<jobs, nextId, nextTask, fs, revoked, reaper, split, call>>

\* ------------------------------------------------------------------ start_next_pending_jobs
\* The users the sweep dispatches for: no row in PROCESSING, one in PENDING.
SweepUsers == {u \in Users : Rows(u, "processing") = {} /\ Rows(u, "pending") # {}}

\* users = values_list("user", flat=True).distinct(): the model's default
\* ordering (-created_at) joins the selected columns, so DISTINCT keeps one
\* entry per row and a user comes up once for each of their rows, newest first.
RECURSIVE SweepVisits(_)
SweepVisits(S) ==
    IF S = {} THEN <<>>
    ELSE LET j == CHOOSE x \in S : \A y \in S : x >= y
         IN  <<jobs[j].user>> \o SweepVisits(S \ {j})

\* The loop over the users, from state <<db, ts, h>>: the job is dispatched and
\* its task_id stored; its status stays PENDING. The broker accepts the
\* executions up to number `last`; the delay() after that raises, which ends
\* the run where it stands.
RECURSIVE SweepFrom(_, _, _, _, _)
SweepFrom(us, db, ts, h, last) ==
    IF us = <<>> THEN <<db, ts, h>>
    ELSE LET user_id == Head(us)
             has_processing == \E j \in DOMAIN db :
                 db[j].user = user_id /\ db[j].status = "processing"
             pending == {j \in DOMAIN db :
                 db[j].user = user_id /\ db[j].status = "pending"}
             next_pending == Oldest(pending)
         IN  IF has_processing \/ pending = {}
             THEN SweepFrom(Tail(us), db, ts, h, last)
             ELSE IF h > last
             THEN <<db, ts, h>>
             ELSE SweepFrom(Tail(us),
                            [db EXCEPT ![next_pending].task_id = h],
                            Delay(ts, h, next_pending),
                            h + 1, last)

Sweep(last) ==
    /\ SweepUsers # {}
    /\ nextTask <= last
    /\ LET after == SweepFrom(SweepVisits(DOMAIN jobs), jobs, tasks, nextTask, last)
       IN  /\ jobs' = after[1]
           /\ tasks' = after[2]
           /\ nextTask' = after[3]
    /\ UNCHANGED <<nextId, fs, revoked, reaper, split, call>>

\* ------------------------------------------------------------------ check_and_recover_stuck_tasks
\* The rows of filter(status='processing', task_id__isnull=False), in the
\* model's default ordering (newest first), as the loop's queryset fetched them.
StuckIds == {j \in DOMAIN jobs : jobs[j].status = "processing" /\ jobs[j].task_id # 0}

RECURSIVE NewestFirst(_)
NewestFirst(S) ==
    IF S = {} THEN <<>>
    ELSE LET j == CHOOSE x \in S : \A y \in S : x >= y
         IN  <<[id |-> j, row |-> jobs[j]]>> \o NewestFirst(S \ {j})

ReaperRead ==
    /\ reaper = <<>>
    /\ StuckIds # {}
    /\ reaper' = NewestFirst(StuckIds)
    /\ UNCHANGED <<jobs, nextId, tasks, nextTask, fs, revoked, split, call>>

\* One iteration of the loop: query the execution's state, maybe recover.
Recovered(audio) ==
    IF AsyncResultState(audio.row.task_id) \in {"PENDING", "REVOKED", "FAILURE"}
    THEN SaveAll(jobs, audio.id, [audio.row EXCEPT !.status = "pending"])
    ELSE jobs

ReaperStep ==
    /\ reaper # <<>>
    /\ jobs' = Recovered(Head(reaper))
    /\ reaper' = Tail(reaper)
    /\ UNCHANGED <<nextId, tasks, nextTask, fs, revoked, split, call>>

\* ------------------------------------------------------------------ views
\* delete_file: the row is deleted; the revoke of its task is commented out.
DeleteFile(j) ==
    /\ j \in DOMAIN jobs
    /\ jobs[j].status # "uploading"
    /\ jobs' = [k \in DOMAIN jobs \ {j} |-> jobs[k]]
    /\ UNCHANGED <<nextId, tasks, nextTask, fs, revoked, reaper, split, call>>

\* The rows enqueue_import_items creates for the selected items (videos[i] is
\* item i's is_video), with the model name the request carries.
RECURSIVE Imported(_, _, _, _, _)
Imported(db, id, u, videos, model) ==
    IF videos = <<>> THEN db
    ELSE Imported(db @@ (id :> [NewRow(u, "pending") EXCEPT
                                   !.source_url = TRUE,
                                   !.is_video = Head(videos),
                                   !.model_name = model]),
                  id + 1, u, Tail(videos), model)

EnqueueImportItems(u, videos, model) ==
    /\ videos # <<>>
    /\ nextId' = nextId + Len(videos)
    /\ LET created == Imported(jobs, nextId, u, videos, model)
           has_active_job == Rows(u, "processing") # {}
       IN  IF ~has_active_job
           THEN /\ jobs' = [created EXCEPT ![nextId].task_id = nextTask]
                /\ tasks' = Delay(tasks, nextTask, nextId)
                /\ nextTask' = nextTask + 1
           ELSE /\ jobs' = created
                /\ UNCHANGED <<tasks, nextTask>>
    /\ UNCHANGED <<fs, revoked, reaper, split, call>>

\* ------------------------------------------------------------------ smart_split_audio
\* Times are whole seconds.  A cut interval is the tuple (start, cut); the
\* tuple (start, None) is the one-element sequence <<start>>.

\* min_chunk_sec of the one call in process_audio_file, and the default.
MinChunkSec == 60

\* 2. Build cut points: the for loop over silence_points, from element i on.
RECURSIVE BuildCuts(_, _, _, _, _, _)
BuildCuts(silence_points, i, max_chunk_sec, min_chunk_sec, cuts, start) ==
    IF i > Len(silence_points) THEN [cuts |-> cuts, start |-> start]
    ELSE LET sp == silence_points[i]
             valid == SelectSeq(silence_points,
                          LAMBDA s : start + min_chunk_sec <= s /\ s <= sp)
             cut == valid[Len(valid)]
         IN  IF sp - start >= max_chunk_sec /\ valid # <<>>
             THEN BuildCuts(silence_points, i + 1, max_chunk_sec, min_chunk_sec,
                            Append(cuts, <<start, cut>>), cut)
             ELSE BuildCuts(silence_points, i + 1, max_chunk_sec, min_chunk_sec,
                            cuts, start)

\* A tail step that emits the trailing segment whatever its length.
WithTailAlways(cuts, start, total_duration, min_chunk_sec) ==
    Append(cuts, <<start>>)

\* A tail step that drops a short tail and leaves the last interval closed.
WithTailDropsShort(cuts, start, total_duration, min_chunk_sec) ==
    IF total_duration - start >= min_chunk_sec
    THEN Append(cuts, <<start>>) ELSE cuts

\* tail_len = total_duration - start: a tail of min_chunk_sec or more is its
\* own interval, a shorter one opens the end of the previous interval.
WithTail(cuts, start, total_duration, min_chunk_sec) ==
    LET tail_len == total_duration - start
    IN  IF tail_len >= min_chunk_sec THEN Append(cuts, <<start>>)
        ELSE IF cuts # <<>>
             THEN [cuts EXCEPT ![Len(cuts)] = <<cuts[Len(cuts)][1]>>]
             ELSE cuts

\* What ffmpeg -ss s [-to e] writes of a track of total_duration seconds:
\* "-to" is passed only for a truthy e.
Exported(c, total_duration) ==
    LET s == IF c[1] > total_duration THEN total_duration ELSE c[1]
        e == IF Len(c) = 2 /\ c[2] # 0 /\ c[2] < total_duration
             THEN c[2] ELSE total_duration
    IN  <<s, IF e < s THEN s ELSE e>>

\* 3. Export chunks: outputs shorter than one second are removed.
ExportChunks(cuts, total_duration) ==
    LET out == [k \in 1..Len(cuts) |-> Exported(cuts[k], total_duration)]
    IN  SelectSeq(out, LAMBDA c : c[2] - c[1] >= 1)

\* _time_split_fallback: ffmpeg -f segment -segment_time sec.
RECURSIVE TimeSplitFallback(_, _, _)
TimeSplitFallback(from, total_duration, sec) ==
    IF total_duration - from < 1 THEN <<>>
    ELSE IF total_duration - from <= sec THEN << <<from, total_duration>> >>
    ELSE << <<from, from + sec>> >> \o TimeSplitFallback(from + sec, total_duration, sec)

\* 1. Detect silence: without a silence point the track is split by time.
SplitDetect ==
    /\ split.pc = "detect"
    /\ IF split.silence_points = <<>>
       THEN split' = [split EXCEPT !.pc = "done",
                          !.paths = TimeSplitFallback(0, split.total_duration,
                                                      split.max_chunk_sec)]
       ELSE split' = [split EXCEPT !.pc = "build"]
    /\ UNCHANGED <<jobs, nextId, tasks, nextTask, fs, revoked, reaper, call>>

SplitBuild ==
    /\ split.pc = "build"
    /\ LET built == BuildCuts(split.silence_points, 1, split.max_chunk_sec,
                              split.min_chunk_sec, <<>>, 0)
       IN  split' = [split EXCEPT !.pc = "tail", !.cuts = built.cuts,
                                  !.start = built.start]
    /\ UNCHANGED <<jobs, nextId, tasks, nextTask, fs, revoked, reaper, call>>

SplitTail ==
    /\ split.pc = "tail"
    /\ split' = [split EXCEPT !.pc = "export",
                     !.cuts = WithTail(split.cuts, split.start,
                                       split.total_duration, split.min_chunk_sec)]
    /\ UNCHANGED <<jobs, nextId, tasks, nextTask, fs, revoked, reaper, call>>

SplitExport ==
    /\ split.pc = "export"
    /\ split' = [split EXCEPT !.pc = "done",
                     !.paths = ExportChunks(split.cuts, split.total_duration)]
    /\ UNCHANGED <<jobs, nextId, tasks, nextTask, fs, revoked, reaper, call>>

\* ------------------------------------------------------------------ adapters
\* One call of process(file_path). token: the vendor's token is set; exists:
\* the file is on disk; net[i]: how the i-th HTTP request of the call ends.
\*   "ok"     status 200 and the body the protocol expects
\*   "http"   a status other than 200
\*   "bad"    status 200, body not JSON
\*   "empty"  status 200, JSON without the expected field
\*   "fail"   requests raises (connection error, timeout)
\*   "wait"   a poll: the conversion is still running
\*   "vendor" a poll: the vendor reports that the conversion failed
\* The outcome is the dict returned ("text", "error", "exception") or "raise"
\* when an exception leaves process(); sent counts the requests made.
Outcome(kind, text, sent) == [kind |-> kind, text |-> text, sent |-> sent]

\* for _ in range(60), in EbooService.process and in ScribeService.process
EbooAttempts == 60
ScribeAttempts == 60

\* How request i ends: net lists the first requests; every later one is a poll
\* that finds the conversion still running.
NetAt(net, i) == IF i <= Len(net) THEN net[i] ELSE "wait"

\* A checkconvert loop that gives up at the first status other than 200.
RECURSIVE EbooPollStopsOnHttp(_, _, _)
EbooPollStopsOnHttp(net, i, last) ==
    IF i > last THEN Outcome("error", <<>>, last)
    ELSE CASE NetAt(net, i) = "fail" -> Outcome("raise", <<>>, i)
           [] NetAt(net, i) = "ok" -> Outcome("text", <<Words[1]>>, i)
           [] NetAt(net, i) \in {"vendor", "http"} -> Outcome("error", <<>>, i)
           [] OTHER -> EbooPollStopsOnHttp(net, i + 1, last)

\* EbooService.process, the checkconvert loop from request i on; request
\* number `last` is the last attempt.
RECURSIVE EbooPoll(_, _, _)
EbooPoll(net, i, last) ==
    IF i > last THEN Outcome("error", <<>>, last)
    ELSE CASE NetAt(net, i) = "fail" -> Outcome("raise", <<>>, i)
           [] NetAt(net, i) = "ok" -> Outcome("text", <<Words[1]>>, i)
           [] NetAt(net, i) = "vendor" -> Outcome("error", <<>>, i)
           [] OTHER -> EbooPoll(net, i + 1, last)

\* EbooService.process: addfile, convert, then the polls; no request is guarded.
EbooProcess(token, exists, net) ==
    IF ~token \/ ~exists THEN Outcome("error", <<>>, 0)
    ELSE CASE net[1] = "fail" -> Outcome("raise", <<>>, 1)
           [] net[1] = "http" -> Outcome("error", <<>>, 1)
           [] net[1] = "bad" -> Outcome("raise", <<>>, 1)
           [] net[1] = "empty" -> Outcome("error", <<>>, 1)
           [] OTHER ->
                CASE net[2] = "fail" -> Outcome("raise", <<>>, 2)
                  [] net[2] = "http" -> Outcome("error", <<>>, 2)
                  [] OTHER -> EbooPoll(net, 3, 2 + EbooAttempts)

\* ScribeService.process, the polling loop: its body is inside try/except.
RECURSIVE ScribePoll(_, _, _)
ScribePoll(net, i, last) ==
    IF i > last THEN Outcome("error", <<>>, last)
    ELSE CASE NetAt(net, i) = "ok" -> Outcome("text", <<Words[1]>>, i)
           [] NetAt(net, i) = "vendor" -> Outcome("error", <<>>, i)
           [] OTHER -> ScribePoll(net, i + 1, last)

\* ScribeService.process: upload and generate are guarded, their .json() is not.
ScribeProcess(token, exists, net) ==
    IF ~token \/ ~exists THEN Outcome("error", <<>>, 0)
    ELSE CASE net[1] = "fail" -> Outcome("exception", <<>>, 1)
           [] net[1] = "http" -> Outcome("error", <<>>, 1)
           [] net[1] = "bad" -> Outcome("raise", <<>>, 1)
           [] net[1] = "empty" -> Outcome("error", <<>>, 1)
           [] OTHER ->
                CASE net[2] = "fail" -> Outcome("exception", <<>>, 2)
                  [] net[2] = "http" -> Outcome("error", <<>>, 2)
                  [] net[2] = "bad" -> Outcome("raise", <<>>, 2)
                  [] net[2] = "empty" -> Outcome("error", <<>>, 2)
                  [] OTHER -> ScribePoll(net, 3, 2 + ScribeAttempts)

\* ViraService.process: one request.
ViraProcess(token, exists, net) ==
    IF ~token \/ ~exists THEN Outcome("error", <<>>, 0)
    ELSE CASE net[1] = "fail" -> Outcome("exception", <<>>, 1)
           [] net[1] = "http" -> Outcome("error", <<>>, 1)
           [] net[1] = "bad" -> Outcome("error", <<>>, 1)
           [] net[1] = "empty" -> Outcome("text", <<>>, 1)
           [] OTHER -> Outcome("text", <<Words[1]>>, 1)

Returned(out) ==
    [call EXCEPT !.pc = "done", !.sent = out.sent,
                 !.result = Result(out.kind, out.text)]

EbooCall ==
    /\ call.pc = "call"
    /\ call.adapter = "eboo"
    /\ call' = Returned(EbooProcess(call.token, call.exists, call.net))
    /\ UNCHANGED <<jobs, nextId, tasks, nextTask, fs, revoked, reaper, split>>

ScribeCall ==
    /\ call.pc = "call"
    /\ call.adapter = "scribe"
    /\ call' = Returned(ScribeProcess(call.token, call.exists, call.net))
    /\ UNCHANGED <<jobs, nextId, tasks, nextTask, fs, revoked, reaper, split>>

ViraCall ==
    /\ call.pc = "call"
    /\ call.adapter = "vira"
    /\ call' = Returned(ViraProcess(call.token, call.exists, call.net))
    /\ UNCHANGED <<jobs, nextId, tasks, nextTask, fs, revoked, reaper, split>>

\* ------------------------------------------------------------------ specifications
\* The requests, the outcomes of the external calls and the caps on the two
\* counters are drawn from the record `in`.
Capped(in) == nextId' <= in.jobs + 1 /\ nextTask' <= in.tasks + 1

\* One step of execution t in a worker.
TaskStep(t, in) ==
    \/ TaskStart(t)
    \/ \E dl \in in.downloads : TaskResolve(t, dl)
    \/ \E ex \in in.extracts : TaskExtract(t, ex)
    \/ \E sp \in in.splits : TaskSplit(t, sp[1], sp[2], sp[3], sp[4])
    \/ \E r \in in.results : TaskChunk(t, r)
    \/ TaskAggregate(t)
    \/ \E s \in in.summaries : TaskSummarize(t, s)
    \/ TaskCleanup(t)
    \/ \E ok \in BOOLEAN : TaskHandoff(t, ok) /\ Capped(in)

\* One request of a user.
Requests(in) ==
    \/ \E u \in in.users : UploadCreate(u) /\ Capped(in)
    \/ \E j \in DOMAIN jobs, up \in in.uploads :
           UploadFinish(j, up[1], up[2], up[3], up[4]) /\ Capped(in)
    \/ \E u \in in.users, im \in in.imports :
           EnqueueImportItems(u, im[1], im[2]) /\ Capped(in)
    \/ \E j \in DOMAIN jobs : DeleteFile(j)

\* One step of the workers: an execution advances, is revoked or is lost.
Workers(in) ==
    \/ \E t \in DOMAIN tasks : TaskStep(t, in)
    \/ \E t \in DOMAIN tasks : RevokeTask(t)
    \/ \E t \in DOMAIN tasks : WorkerLost(t)

\* The queue: several users and jobs, each job a short audio (an upload or a
\* link) for the default vendor, so that every execution has one chunk.
QueueInputs ==
    [users |-> Users, jobs |-> MaxJobs, tasks |-> MaxTasks,
     uploads |-> {<<FALSE, FALSE, FALSE, "eboo">>, <<TRUE, TRUE, FALSE, "eboo">>},
     imports |-> {<<<<FALSE>>, "eboo">>, <<<<FALSE, FALSE>>, "eboo">>},
     downloads |-> {"ok", "fail"},
     extracts |-> {"ok"},
     splits |-> {<<1, 0, FALSE, {}>>},
     results |-> {Result("text", <<Words[1]>>), Result("error", <<>>),
                  Result("skipped", <<>>)},
     summaries |-> {"empty"}]

Next ==
    \/ Requests(QueueInputs)
    \/ Workers(QueueInputs)
    \/ Sweep(QueueInputs.tasks)
    \/ ReaperRead
    \/ ReaperStep

Spec == Init /\ [][Next]_vars

\* The life of one job and of its one execution, in full: every kind of source,
\* vendor, duration, split and adapter outcome, with the deletion, the kills
\* and the reaper runs it can meet. (With one job, dispatched when it is
\* created, the sweep has nothing to dispatch.)
AllResults ==
    UNION {AdapterResults(m, i) : m \in ModelChoices \cup {"other"}, i \in 1..MaxChunks}
        \cup {Result("skipped", <<>>)}

JobInputs ==
    [users |-> {1}, jobs |-> 1, tasks |-> 1,
     uploads |-> BOOLEAN \X BOOLEAN \X BOOLEAN \X ModelChoices,
     imports |-> {<<<<v>>, m>> : v \in BOOLEAN, m \in ModelChoices \cup {"", "other"}},
     downloads |-> {"ok", "fail", "partial"},
     extracts |-> {"ok", "fail", "partial"},
     splits |-> Durations \X (0..MaxChunks) \X BOOLEAN \X SUBSET (1..MaxChunks),
     results |-> AllResults,
     summaries |-> {"text", "empty", "raised"}]

JobNext ==
    \/ Requests(JobInputs)
    \/ Workers(JobInputs)
    \/ ReaperRead
    \/ ReaperStep

JobSpec == Init /\ [][JobNext]_vars

\* The queue under fair scheduling: the workers run every execution they hold,
\* and the beat scheduler keeps running the sweep and the reaper. Nothing is
\* deleted, revoked or lost, and every external call answers.
FairInputs ==
    [users |-> {1}, jobs |-> MaxJobs, tasks |-> MaxTasks,
     uploads |-> {<<TRUE, TRUE, FALSE, "eboo">>, <<TRUE, TRUE, TRUE, "eboo">>},
     imports |-> {},
     downloads |-> {"ok"},
     extracts |-> {"ok"},
     splits |-> {<<1, 0, FALSE, {}>>},
     results |-> {Result("text", <<Words[1]>>), Result("error", <<>>)},
     summaries |-> {"empty"}]

FairNext ==
    \/ \E u \in FairInputs.users : UploadCreate(u) /\ Capped(FairInputs)
    \/ \E j \in DOMAIN jobs, up \in FairInputs.uploads :
           UploadFinish(j, up[1], up[2], up[3], up[4]) /\ Capped(FairInputs)
    \/ \E t \in DOMAIN tasks : TaskStep(t, FairInputs)
    \/ Sweep(FairInputs.tasks)
    \/ ReaperRead
    \/ ReaperStep

Fairness ==
    /\ \A t \in 1..MaxTasks : WF_vars(TaskStep(t, FairInputs))
    /\ WF_vars(Sweep(FairInputs.tasks))
    /\ WF_vars(ReaperRead)
    /\ WF_vars(ReaperStep)

FairSpec == Init /\ [][FairNext]_vars /\ Fairness

\* The sweep among uploads, imports and executions, with a broker that refuses
\* nothing: a run of the sweep starts while the cap on executions is not
\* reached and then enqueues everything it dispatches.
SweepInputs ==
    [users |-> Users, jobs |-> MaxJobs, tasks |-> MaxTasks + 1,
     uploads |-> {<<FALSE, FALSE, FALSE, "eboo">>, <<TRUE, TRUE, FALSE, "eboo">>},
     imports |-> {<<<<FALSE>>, "eboo">>},
     downloads |-> {"ok"},
     extracts |-> {"ok"},
     splits |-> {<<1, 0, FALSE, {}>>},
     results |-> {Result("text", <<Words[1]>>)},
     summaries |-> {"empty"}]

SweepNext ==
    \/ \E u \in SweepInputs.users : UploadCreate(u) /\ Capped(SweepInputs)
    \/ \E j \in DOMAIN jobs, up \in SweepInputs.uploads :
           UploadFinish(j, up[1], up[2], up[3], up[4]) /\ Capped(SweepInputs)
    \/ \E u \in SweepInputs.users, im \in SweepInputs.imports :
           EnqueueImportItems(u, im[1], im[2]) /\ Capped(SweepInputs)
    \/ \E t \in DOMAIN tasks : TaskStep(t, SweepInputs)
    \/ Sweep(SweepInputs.tasks + MaxJobs) /\ nextTask <= SweepInputs.tasks

SweepSpec == Init /\ [][SweepNext]_vars

\* Two users with three link jobs between them, so that the execution of one
\* user's first job ends and hands off to their second while the other user's
\* job is in the store; the periodic sweep runs beside them.
TenantInputs ==
    [users |-> Users, jobs |-> MaxJobs + 1, tasks |-> MaxTasks + 1,
     uploads |-> {},
     imports |-> {<<<<FALSE>>, "eboo">>, <<<<FALSE, FALSE>>, "eboo">>},
     downloads |-> {"ok"},
     extracts |-> {"ok"},
     splits |-> {<<1, 0, FALSE, {}>>},
     results |-> {Result("text", <<Words[1]>>)},
     summaries |-> {"empty"}]

TenantNext ==
    \/ \E u \in TenantInputs.users, im \in TenantInputs.imports :
           EnqueueImportItems(u, im[1], im[2]) /\ Capped(TenantInputs)
    \/ \E t \in DOMAIN tasks : TaskStep(t, TenantInputs)
    \/ Sweep(TenantInputs.tasks)

TenantSpec == Init /\ [][TenantNext]_vars

\* One job and the two executions it gets when the sweep dispatches it beside
\* the execution its upload enqueued; the adapter answers with a text or raises.
TwinInputs ==
    [users |-> {1}, jobs |-> 1, tasks |-> MaxTasks,
     uploads |-> {<<TRUE, TRUE, FALSE, "eboo">>},
     imports |-> {},
     downloads |-> {"ok"},
     extracts |-> {"ok"},
     splits |-> {<<1, 0, FALSE, {}>>},
     results |-> {Result("text", <<Words[1]>>), Result("raise", <<>>)},
     summaries |-> {"text", "raised"}]

TwinNext ==
    \/ \E u \in TwinInputs.users : UploadCreate(u) /\ Capped(TwinInputs)
    \/ \E j \in DOMAIN jobs, up \in TwinInputs.uploads :
           UploadFinish(j, up[1], up[2], up[3], up[4]) /\ Capped(TwinInputs)
    \/ \E t \in DOMAIN tasks : TaskStep(t, TwinInputs)
    \/ Sweep(TwinInputs.tasks)

TwinSpec == Init /\ [][TwinNext]_vars

\* Calls of smart_split_audio: track lengths around min_chunk_sec and the
\* vendors' limits, and the silence ends ffmpeg reports in ascending order,
\* none of them beyond the track's end.
SplitDurations == {30, 59, 60, 250, 400, 550, 700, 1100}
SilenceGrid == {10, 100, 200, 300, 500, 650, 1000}
SilenceLists ==
    {sps \in UNION {[1..n -> SilenceGrid] : n \in 0..MaxSilence} :
        \A i \in 1..Len(sps) - 1 : sps[i] < sps[i + 1]}
SplitCalls ==
    {c \in {[NoSplit EXCEPT !.pc = "detect", !.total_duration = L,
                 !.silence_points = sps, !.max_chunk_sec = m,
                 !.min_chunk_sec = MinChunkSec] :
               L \in SplitDurations, sps \in SilenceLists,
               m \in {ViraMaxChunk, EbooMaxChunk, ScribeMaxChunk}} :
        \A i \in 1..Len(c.silence_points) :
            c.silence_points[i] <= c.total_duration}

SplitInit ==
    /\ jobs = <<>>
    /\ nextId = 1
    /\ tasks = <<>>
    /\ nextTask = 1
    /\ fs = {}
    /\ revoked = {}
    /\ reaper = <<>>
    /\ split \in SplitCalls
    /\ call = NoCall

SplitNext == SplitDetect \/ SplitBuild \/ SplitTail \/ SplitExport

SplitSpec == SplitInit /\ [][SplitNext]_vars

\* Calls of the adapters: with and without token and file, and every way the
\* two opening requests and the polls can end.
FirstOutcomes == {"ok", "http", "bad", "empty", "fail"}
PollOutcomes == {"ok", "http", "bad", "fail", "wait", "vendor"}
NetOutcomes ==
    {net \in [1..2 + MaxPolls -> FirstOutcomes \cup PollOutcomes] :
        /\ net[1] \in FirstOutcomes
        /\ net[2] \in FirstOutcomes
        /\ \A i \in 3..2 + MaxPolls : net[i] \in PollOutcomes}
AdapterCalls ==
    {[NoCall EXCEPT !.pc = "call", !.adapter = a, !.token = tk, !.exists = ex,
                    !.net = net] :
        a \in ModelChoices, tk \in BOOLEAN, ex \in BOOLEAN, net \in NetOutcomes}

AdapterInit ==
    /\ jobs = <<>>
    /\ nextId = 1
    /\ tasks = <<>>
    /\ nextTask = 1
    /\ fs = {}
    /\ revoked = {}
    /\ reaper = <<>>
    /\ split = NoSplit
    /\ call \in AdapterCalls

AdapterNext == EbooCall \/ ScribeCall \/ ViraCall

AdapterSpec == AdapterInit /\ [][AdapterNext]_vars

\* ------------------------------------------------------------------ properties

\* C1: every user has at most one job whose status is 'processing'.
C1_MutualExclusion ==
    \A u \in Users : Cardinality(Rows(u, "processing")) <= 1

\* C2: under fair scheduling every job that is 'pending' eventually becomes
\* 'completed' or 'failed' (as long as the execution system still takes
\* executions: the model's cap on task ids is not reached).
C2_PendingTerminates ==
    \A j \in 1..MaxJobs :
        (j \in DOMAIN jobs /\ jobs[j].status = "pending")
            ~> \/ j \in DOMAIN jobs /\ jobs[j].status \in Terminal
               \/ nextTask > MaxTasks

\* C3: once a job is 'completed' or 'failed' its status never changes again;
\* in particular no execution moves it back to 'processing'.
C3_TerminalIsFinal ==
    [][\A j \in DOMAIN jobs :
          (jobs[j].status \in Terminal /\ j \in DOMAIN jobs')
              => jobs'[j].status = jobs[j].status]_vars

\* C4: a job whose status is 'completed' has a non-empty transcript text.
C4_CompletedHasTranscript ==
    \A j \in DOMAIN jobs :
        jobs[j].status = "completed" => jobs[j].transcript_text # <<>>

C4_Witness ==
    \E j \in DOMAIN jobs :
        /\ jobs[j].status = "completed"
        /\ \E t \in DOMAIN tasks : tasks[t].file = j /\ tasks[t].pc = "done"

\* C5: a job whose status is 'failed' has a non-empty error message, whichever
\* failure path set it.
C5_FailedHasError ==
    \A j \in DOMAIN jobs :
        jobs[j].status = "failed" => jobs[j].error_message # "null"

C5_Witness ==
    \E j \in DOMAIN jobs :
        jobs[j].status = "failed" /\ jobs[j].error_message = "unknown"

\* The texts the chunk loop keeps of the adapter results, in chunk order.
RECURSIVE ChunkTexts(_)
ChunkTexts(results) ==
    IF results = <<>> THEN <<>>
    ELSE LET r == Head(results)
         IN  (IF r.kind = "text" /\ Strip(r.text) # <<>>
              THEN <<Strip(r.text)>> ELSE <<>>) \o ChunkTexts(Tail(results))

AllChunksFailed(fr) ==
    /\ fr.chunks # <<>>
    /\ Len(fr.results) = Len(fr.chunks)
    /\ \A i \in DOMAIN fr.results :
          \/ fr.results[i].kind \in {"error", "exception"}
          \/ fr.results[i].kind = "text" /\ Strip(fr.results[i].text) = <<>>

\* C7: when every chunk of a job has failed, the execution stores the job as
\* 'failed' with the 'empty result' message and its transcript, unset until
\* then, stays unset.
C7_AllChunksFailed ==
    [][\A t \in DOMAIN tasks :
          (tasks[t].pc = "aggregate" /\ tasks'[t].pc = "cleanup"
              /\ AllChunksFailed(tasks[t]) /\ tasks[t].file \in DOMAIN jobs
              /\ jobs[tasks[t].file].transcript_text = <<>>)
          => /\ jobs'[tasks[t].file].status = "failed"
             /\ jobs'[tasks[t].file].error_message = "empty"
             /\ jobs'[tasks[t].file].transcript_text = <<>>]_vars

C7_Witness ==
    \E t \in DOMAIN tasks :
        /\ tasks[t].pc = "cleanup"
        /\ AllChunksFailed(tasks[t])
        /\ Len(tasks[t].chunks) > 1
        /\ tasks[t].file \in DOMAIN jobs
        /\ jobs[tasks[t].file].error_message = "empty"

\* C8: a summarization that fails (raises or returns nothing) changes no row:
\* the job stays 'completed' with the transcript the execution stored, and its
\* summary stays empty.
C8_SummaryFailureIsSwallowed ==
    [][\A t \in DOMAIN tasks :
          (tasks[t].pc = "summarize" /\ tasks'[t].pc = "cleanup"
              /\ tasks'[t].af.summary_text = "null")
          => /\ jobs' = jobs
             /\ tasks'[t].af.status = "completed"
             /\ tasks'[t].af.transcript_text = tasks[t].af.transcript_text]_vars

C8_Witness ==
    \E t \in DOMAIN tasks :
        /\ tasks[t].pc = "cleanup"
        /\ tasks[t].af.status = "completed"
        /\ tasks[t].af.summary_text = "null"
        /\ tasks[t].file \in DOMAIN jobs
        /\ jobs[tasks[t].file].status = "completed"
        /\ jobs[tasks[t].file].summary_text = "null"

\* The job a sweep run would dispatch for user u.
SweepTarget(u) == Oldest(Rows(u, "pending"))

\* C9: the job the reaper visits in 'processing' with a handle whose state is
\* REVOKED is set to 'pending', and it is then the job the sweep dispatches
\* for its owner.
C9_RecoveredIsDispatched ==
    [][\A j \in 1..MaxJobs, u \in Users :
          (reaper # <<>> /\ reaper' = Tail(reaper)
              /\ Head(reaper).id = j /\ Head(reaper).row.user = u
              /\ AsyncResultState(Head(reaper).row.task_id) = "REVOKED")
          => /\ jobs'[j].status = "pending"
             /\ (u \in SweepUsers)'
             /\ (SweepTarget(u))' = j]_vars

\* C10: deleting a job whose execution is still running issues a revoke for
\* that execution's handle.
C10_DeleteCancels ==
    [][\A j \in DOMAIN jobs :
          (j \notin DOMAIN jobs' /\ jobs[j].task_id \in DOMAIN tasks
              /\ tasks[jobs[j].task_id].pc \notin {"queued", "done", "dead"})
          => jobs[j].task_id \in revoked']_vars

\* The files execution t has made: its download, its extracted audio and the
\* chunk files cut from the file it works on.
CreatedBy(t) ==
    {TmpFile(t), WavFile(t)}
        \cup {ChunkFile(tasks[t].file_path, i) : i \in 1..MaxChunks}

\* C11: when an execution has run its cleanup, none of the files it made (its
\* download, its extracted audio, its chunk files) is left on disk.
C11_NoIntermediateFilesLeft ==
    \A t \in DOMAIN tasks :
        tasks[t].pc = "handoff" => CreatedBy(t) \cap fs = {}

\* C12: an execution that found its job ends only through the queue hand-off,
\* which it performs once, after the cleanup has removed its files and after
\* the step that made the job terminal has stored that status.
C12_HandoffOnceAfterTerminal ==
    [][\A t \in DOMAIN tasks :
          LET f == tasks[t].file IN
          /\ (tasks[t].pc # "done" /\ tasks'[t].pc = "done")
                => \/ tasks[t].pc = "handoff"
                   \/ tasks[t].pc = "queued" /\ f \notin DOMAIN jobs
          /\ tasks[t].pc = "done" => tasks'[t].pc = "done"
          /\ (tasks[t].pc # "handoff" /\ tasks'[t].pc = "handoff")
                => /\ tasks[t].pc = "cleanup"
                   /\ tasks[t].af.status \in Terminal
                   /\ CleanedUp(t) \cap fs' = {}
          /\ (tasks[t].af.status \notin Terminal
                 /\ tasks'[t].af.status \in Terminal /\ f \in DOMAIN jobs')
                => jobs'[f].status = tasks'[t].af.status]_vars

C12_Witness ==
    \E t \in DOMAIN tasks :
        /\ tasks[t].pc = "done"
        /\ tasks[t].file \in DOMAIN jobs
        /\ jobs[tasks[t].file].status = "failed"
        /\ jobs[tasks[t].file].error_message = "unknown"

\* The jobs that some outstanding execution (queued or running) is for.
Owned == {tasks[x].file : x \in {y \in DOMAIN tasks : Live(y)}}

\* C13: the job a dispatch is made for is its user's oldest pending job: no
\* older pending job of that user, waiting without an execution, is passed over.
C13_DispatchIsFifo ==
    [][\A h \in DOMAIN tasks' \ DOMAIN tasks :
          \A k \in DOMAIN jobs :
              ~ /\ k < tasks'[h].file
                /\ jobs[k].user = jobs'[tasks'[h].file].user
                /\ jobs[k].status = "pending"
                /\ k \notin Owned]_vars

\* C14: a hand-off that enqueues no execution (there is nothing to dispatch, or
\* the enqueue failed) leaves every pending job pending.
C14_FailedEnqueueStaysPending ==
    [][\A t \in DOMAIN tasks :
          (tasks[t].pc = "handoff" /\ tasks'[t].pc = "done"
              /\ DOMAIN tasks' = DOMAIN tasks)
          => \A k \in DOMAIN jobs :
                 jobs[k].status = "pending" => jobs'[k].status = "pending"]_vars

\* C15: a run of the sweep enqueues one execution for every user that has no
\* job in 'processing' and a job in 'pending', for that user's oldest pending
\* job, and none for any other user. (A run of the sweep is the step that
\* enqueues executions and changes no status, row count or running execution.)
C15_SweepDispatchesOldestOnce ==
    [][(/\ DOMAIN tasks' # DOMAIN tasks
        /\ nextId' = nextId
        /\ \A t \in DOMAIN tasks : tasks'[t] = tasks[t]
        /\ \A j \in DOMAIN jobs : jobs'[j].status = jobs[j].status)
       => \A u \in Users :
             LET new == {h \in DOMAIN tasks' \ DOMAIN tasks :
                            jobs[tasks'[h].file].user = u}
             IN  IF u \in SweepUsers
                 THEN /\ Cardinality(new) = 1
                      /\ \A h \in new : tasks'[h].file = SweepTarget(u)
                 ELSE new = {}]_vars

\* C16: no two outstanding executions (queued or running) are for the same job.
C16_OneExecutionPerJob ==
    \A t1, t2 \in DOMAIN tasks :
        (t1 # t2 /\ Live(t1) /\ Live(t2)) => tasks[t1].file # tasks[t2].file

CutCandidates(start) ==
    {split.silence_points[i] : i \in
        {k \in 1..Len(split.silence_points) :
            /\ start + split.min_chunk_sec <= split.silence_points[k]
            /\ split.silence_points[k] <= start + split.max_chunk_sec}}

\* C18: every cut the loop makes from a start that has such silence points
\* lands on the latest silence point that is at least min_chunk_sec and at most
\* max_chunk_sec after the start.
C18_CutAtLatestValidSilence ==
    split.pc = "tail" =>
        \A k \in 1..Len(split.cuts) :
            LET cand == CutCandidates(split.cuts[k][1])
            IN  cand # {} =>
                    /\ split.cuts[k][2] \in cand
                    /\ \A s \in cand : s <= split.cuts[k][2]

\* C19: every interval that ends at a silence point is at most max_chunk_sec
\* long.
C19_SilenceCutWithinMax ==
    \A k \in 1..Len(split.cuts) :
        Len(split.cuts[k]) = 2 =>
            split.cuts[k][2] - split.cuts[k][1] <= split.max_chunk_sec

\* C20: the tail step appends the trailing segment as one interval when it is
\* min_chunk_sec or longer and otherwise extends the previous interval to the
\* track's end; with at least one cut, no interval it leaves and no chunk
\* exported from them is shorter than min_chunk_sec.
C20_ShortTailIsMerged ==
    [][/\ (split.pc = "tail" /\ split'.pc = "export") =>
            LET n == Len(split.cuts)
                tail_len == split.total_duration - split.start
            IN  /\ tail_len >= split.min_chunk_sec =>
                       split'.cuts = Append(split.cuts, <<split.start>>)
                /\ (tail_len < split.min_chunk_sec /\ n > 0) =>
                       /\ Len(split'.cuts) = n
                       /\ \A k \in 1..n - 1 : split'.cuts[k] = split.cuts[k]
                       /\ split'.cuts[n] = <<split.cuts[n][1]>>
                /\ n > 0 =>
                       \A k \in 1..Len(split'.cuts) :
                           LET c == split'.cuts[k]
                               end == IF Len(c) = 2 THEN c[2]
                                      ELSE split.total_duration
                           IN  end - c[1] >= split.min_chunk_sec
       /\ (split.pc = "export" /\ split'.pc = "done" /\ split.start > 0) =>
            /\ Len(split'.paths) = Len(split.cuts)
            /\ \A k \in 1..Len(split'.paths) :
                   split'.paths[k][2] - split'.paths[k][1] >= split.min_chunk_sec
      ]_vars

\* A call that cut at a silence point and merged the short tail into it.
C20_Witness ==
    /\ split.pc = "done"
    /\ split.start > 0
    /\ split.total_duration - split.start < split.min_chunk_sec
    /\ split.cuts = << <<0>> >>
    /\ split.paths = << <<0, split.total_duration>> >>

\* C21: a chunk that probes below 1.0 s is never passed to an adapter, adds
\* nothing to the texts that are aggregated, and its file is gone when the
\* execution has reached its end.
C21_ShortChunkIsDropped ==
    \A t \in DOMAIN tasks :
        LET fr == tasks[t]
            heard == {i \in 1..Len(fr.results) :
                         /\ fr.chunks[i] \notin fr.short
                         /\ fr.results[i].kind = "text"
                         /\ Strip(fr.results[i].text) # <<>>}
        IN  /\ \A i \in 1..Len(fr.results) :
                   fr.chunks[i] \in fr.short => fr.results[i].kind = "skipped"
            /\ Len(fr.texts) = Cardinality(heard)
            /\ fr.pc = "handoff" => fr.short \cap fs = {}

\* A long file whose segmentation exported a chunk below 1.0 s beside a good
\* one; the job completed from the good chunk.
C21_Witness ==
    \E t \in DOMAIN tasks :
        /\ tasks[t].pc = "handoff"
        /\ tasks[t].short # {}
        /\ tasks[t].chunks # <<>>
        /\ tasks[t].af.status = "completed"

\* The executions of job j that are queued or running.
Backing(j) == {t \in DOMAIN tasks : tasks[t].file = j /\ Live(t)}

\* C22: the reaper moves a job from 'processing' to 'pending' only when no
\* execution of the job is queued or running.
C22_ReaperSparesLiveJobs ==
    [][\A j \in DOMAIN jobs :
          (/\ jobs[j].status = "processing"
           /\ j \in DOMAIN jobs'
           /\ jobs'[j].status = "pending") => Backing(j) = {}]_vars

\* The states of a handle for which the reaper recovers the job.
Recoverable == {"PENDING", "REVOKED", "FAILURE"}

\* C23: an iteration of the reaper changes a job only if the job is in
\* 'processing', carries a handle and the handle's state is pending/missing,
\* revoked or failed, and then it changes nothing but the status, to
\* 'pending'; every other job is left as it is.
C23_ReaperFrame ==
    [][(reaper # <<>> /\ reaper' = Tail(reaper)) =>
          \A j \in DOMAIN jobs \cup DOMAIN jobs' :
              /\ j \in DOMAIN jobs
              /\ j \in DOMAIN jobs'
              /\ IF /\ jobs[j].status = "processing"
                    /\ jobs[j].task_id # 0
                    /\ AsyncResultState(jobs[j].task_id) \in Recoverable
                 THEN jobs'[j] \in {jobs[j], [jobs[j] EXCEPT !.status = "pending"]}
                 ELSE jobs'[j] = jobs[j]]_vars

\* C24: an iteration of the reaper leaves a job that an execution has brought
\* to a terminal state in that state, with its transcript and error message.
C24_ReaperKeepsTerminal ==
    [][(reaper # <<>> /\ reaper' = Tail(reaper)) =>
          \A j \in DOMAIN jobs :
              jobs[j].status \in Terminal =>
                  /\ j \in DOMAIN jobs'
                  /\ jobs'[j].status = jobs[j].status
                  /\ jobs'[j].transcript_text = jobs[j].transcript_text
                  /\ jobs'[j].error_message = jobs[j].error_message]_vars

\* C25: a job that is 'processing' while no execution of it is queued or
\* running is eventually 'pending' again or in a terminal state.
C25_OrphanIsRecovered ==
    \A j \in 1..MaxJobs :
        (j \in DOMAIN jobs /\ jobs[j].status = "processing" /\ Backing(j) = {})
            ~> (j \in DOMAIN jobs /\ jobs[j].status \in {"pending"} \cup Terminal)

\* C26: a job whose stored status is 'processing' carries a handle.
C26_ProcessingHasHandle ==
    \A j \in DOMAIN jobs : jobs[j].status = "processing" => jobs[j].task_id # 0

\* C27: when an execution is at its queue hand-off, the job it executed, if
\* its row exists, is stored as 'completed' or 'failed'.
C27_TerminalAtHandoff ==
    \A t \in DOMAIN tasks :
        (tasks[t].pc = "handoff" /\ tasks[t].file \in DOMAIN jobs)
            => jobs[tasks[t].file].status \in Terminal

\* The step of execution t in which an exception reaches the outermost
\* handler: no source to resolve, the segmenter raises (chunks stays unbound)
\* or an adapter raises.
Raises(t) ==
    /\ t \in DOMAIN tasks
    /\ \/ /\ tasks[t].pc = "resolve"
          /\ tasks'[t].pc = "cleanup"
          /\ ~tasks[t].af.audio_file
          /\ ~tasks[t].af.source_url
       \/ tasks[t].pc = "split" /\ tasks'[t].pc = "cleanup" /\ ~tasks'[t].bound
       \/ tasks[t].pc = "chunk" /\ tasks'[t].pc = "cleanup"

\* C28: an exception between source resolution and summarization leaves the
\* job stored as 'failed', with the generic message unless a failure was
\* stored already; a job stored as 'completed' or 'failed' when the exception
\* is raised keeps its status, message and transcript; and the execution goes
\* on with the cleanup.
C28_UnexpectedForcesFailed ==
    [][\A t \in DOMAIN tasks : Raises(t) =>
          LET f == tasks[t].file
          IN  /\ tasks'[t].pc = "cleanup"
              /\ f \in DOMAIN jobs'
              /\ IF f \in DOMAIN jobs /\ jobs[f].status \in Terminal
                 THEN /\ jobs'[f].status = jobs[f].status
                      /\ jobs'[f].error_message = jobs[f].error_message
                      /\ jobs'[f].transcript_text = jobs[f].transcript_text
                 ELSE /\ jobs'[f].status = "failed"
                      /\ jobs'[f].error_message =
                             IF tasks[t].pc = "resolve" THEN "nosource"
                             ELSE "unknown"]_vars

\* C29: the chunks are handled one by one in their order, each by one adapter
\* call; a call that ends in an error or in an exception makes the loop skip
\* that chunk (no text is added, nothing is stored) and go on to the next
\* chunk, or to the aggregation after the last one.
C29_FailedChunkIsSkipped ==
    [][\A t \in DOMAIN tasks :
          (/\ tasks[t].pc = "chunk"
           /\ tasks'[t].pc \in {"chunk", "aggregate", "cleanup"}
           /\ tasks'[t] # tasks[t])
          => LET idx == Len(tasks[t].results) + 1
                 r == tasks'[t].results[idx]
             IN  /\ Len(tasks'[t].results) = idx
                 /\ \A i \in 1..idx - 1 : tasks'[t].results[i] = tasks[t].results[i]
                 /\ tasks'[t].chunks = tasks[t].chunks
                 /\ r.kind \in {"error", "exception", "raise"} =>
                        /\ tasks'[t].texts = tasks[t].texts
                        /\ tasks'[t].pc = IF idx < Len(tasks[t].chunks)
                                          THEN "chunk" ELSE "aggregate"
                        /\ jobs' = jobs]_vars

\* C30: every adapter call returns a dict; without the token or without the
\* file the dict holds "error"; when a request of the call fails in transport
\* the dict holds "exception".
C30_AdaptersNeverRaise ==
    call.pc = "done" =>
        /\ call.result.kind # "raise"
        /\ (~call.token \/ ~call.exists) => call.result.kind = "error"
        /\ (\E i \in 1..call.sent : NetAt(call.net, i) = "fail")
               => call.result.kind = "exception"

\* C31: for every sequence of vendor responses the Eboo poll loop makes at
\* most 60 polls: it returns the text at the first poll that reports the
\* finished status, an error at the first poll that reports a failure, and the
\* timeout error after the 60th poll; a poll answered with another status than
\* 200 or with an unparsable body uses up one attempt.
C31_EbooPollingIsBounded ==
    (/\ call.pc = "done"
     /\ call.adapter = "eboo"
     /\ call.token /\ call.exists
     /\ call.net[1] = "ok"
     /\ call.net[2] \notin {"fail", "http"}
     /\ \A i \in 3..Len(call.net) : call.net[i] # "fail")
    => LET decisive == {i \in 3..Len(call.net) : call.net[i] \in {"ok", "vendor"}}
           first == CHOOSE i \in decisive : \A k \in decisive : i <= k
       IN  /\ call.sent - 2 <= EbooAttempts
           /\ IF decisive # {}
              THEN /\ call.sent = first
                   /\ call.result.kind =
                          IF call.net[first] = "ok" THEN "text" ELSE "error"
              ELSE /\ call.sent = 2 + EbooAttempts
                   /\ call.result.kind = "error"

\* A call whose first poll is answered with a status other than 200 and whose
\* second poll finds the conversion finished.
C31_Witness ==
    /\ call.pc = "done"
    /\ call.adapter = "eboo"
    /\ call.net[3] = "http"
    /\ call.net[4] = "ok"
    /\ call.sent = 4
    /\ call.result.kind = "text"

\* C32: the sentence the Scribe adapter returns for a generation that
\* completed without content is never part of a job's stored transcript.
C32_NoPlaceholderTranscript ==
    \A j \in DOMAIN jobs :
        \A i \in 1..Len(jobs[j].transcript_text) :
            jobs[j].transcript_text[i] # "placeholder"

\* C33: the step that decides chunking calls the segmenter exactly when the
\* probed duration of the resolved audio is strictly greater than the threshold
\* of the job's vendor (Vira 300 s, Eboo 480 s, Scribe 600 s, Eboo's when the
\* vendor is unset); otherwise no chunk file is written and, when the execution
\* goes on to the vendor, its only chunk is the resolved file itself.
C33_SegmenterExactlyAboveThreshold ==
    [][\A t \in DOMAIN tasks :
         (/\ t \in DOMAIN tasks'
          /\ tasks[t].pc = "split"
          /\ tasks'[t].pc \in {"chunk", "cleanup"})
         => /\ tasks'[t].segmented
                 <=> tasks'[t].duration >
                       (CASE tasks[t].af.model_name = "vira" -> ViraMaxChunk
                          [] tasks[t].af.model_name = "scribe" -> ScribeMaxChunk
                          [] OTHER -> EbooMaxChunk)
            /\ ~tasks'[t].segmented => fs' \subseteq fs
            /\ (~tasks'[t].segmented /\ tasks'[t].pc = "chunk")
                 => tasks'[t].chunks = <<tasks[t].file_path>>]_vars

\* An Eboo job whose audio lasts exactly the threshold goes to the vendor whole.
C33_Witness ==
    \E t \in DOMAIN tasks :
        /\ tasks[t].pc = "chunk"
        /\ tasks[t].af.model_name \in {"", "eboo"}
        /\ tasks[t].duration = EbooMaxChunk
        /\ ~tasks[t].segmented
        /\ tasks[t].chunks = <<tasks[t].file_path>>

\* C34: an execution of a job that has a source URL and no local file, whose
\* download fails, stores 'failed' with the download message, goes straight to
\* the finally block without an adapter call and without resolving again, runs
\* the cleanup and the hand-off, and leaves the job 'failed' with that message
\* when it ends.
C34_DownloadFailureEndsFailed ==
    [][\A t \in DOMAIN tasks :
         LET f == tasks[t].file
         IN  /\ (/\ t \in DOMAIN tasks'
                 /\ tasks[t].pc = "resolve"
                 /\ tasks[t].af.source_url /\ ~tasks[t].af.audio_file
                 /\ tasks'[t].pc = "cleanup")
                => /\ tasks'[t].af.error_message = "download"
                   /\ tasks'[t].results = <<>>
                   /\ f \in DOMAIN jobs
                        => /\ jobs'[f].status = "failed"
                           /\ jobs'[f].error_message = "download"
             /\ (/\ t \in DOMAIN tasks'
                 /\ tasks[t].af.error_message = "download"
                 /\ tasks[t].pc \in {"cleanup", "handoff"}
                 /\ tasks'[t].pc \notin {tasks[t].pc, "dead"})
                => /\ tasks'[t].pc = IF tasks[t].pc = "cleanup"
                                     THEN "handoff" ELSE "done"
                   /\ (tasks'[t].pc = "done" /\ f \in DOMAIN jobs')
                        => /\ jobs'[f].status = "failed"
                           /\ jobs'[f].error_message = "download"]_vars

\* C35: every job has exactly one source: an uploaded file or a source URL,
\* never both and never neither. The row upload_file has created and not yet
\* finished with ('uploading') is left out, so that the property speaks of the
\* jobs a request has left behind.
C35_ExactlyOneSource ==
    \A j \in DOMAIN jobs :
        jobs[j].status # "uploading"
            => (jobs[j].audio_file /\ ~jobs[j].source_url)
               \/ (~jobs[j].audio_file /\ jobs[j].source_url)

\* C36: no step of an execution of process_audio_file removes the file a user
\* uploaded for a job, whatever duration the file probes at and whichever way
\* the execution goes: an uploaded file leaves the disk only by a request.
C36_SourceFileSurvivesExecutions ==
    [][\A j \in 1..MaxJobs :
         (SrcFile(j) \in fs /\ SrcFile(j) \notin fs') => tasks' = tasks]_vars

\* C37: a job that was deleted never exists again: every row that appears in
\* the store carries an id that no row has had before.
C37_DeletedJobStaysDeleted ==
    [][\A j \in DOMAIN jobs' : j \in DOMAIN jobs \/ j >= nextId]_vars

\* C38: the hand-off at the end of an execution for a job of user U leaves every
\* row of every other user as it is, and dispatches U's pending job whenever U
\* has no other job in 'processing', whatever the other users' jobs are doing;
\* a run of the sweep changes only the handle of 'pending' jobs whose owner has
\* no job in 'processing'.
C38_UserIsolation ==
    [][/\ \A t \in DOMAIN tasks :
            (/\ t \in DOMAIN tasks'
             /\ tasks[t].pc = "handoff"
             /\ tasks'[t].pc = "done")
            => /\ \A j \in DOMAIN jobs :
                     jobs[j].user # tasks[t].af.user
                         => j \in DOMAIN jobs' /\ jobs'[j] = jobs[j]
               /\ (/\ \A j \in DOMAIN jobs :
                         (/\ jobs[j].user = tasks[t].af.user
                          /\ jobs[j].status = "processing") => j = tasks[t].file
                   /\ \E j \in DOMAIN jobs :
                         /\ jobs[j].user = tasks[t].af.user
                         /\ jobs[j].status = "pending")
                  => \E j \in DOMAIN jobs :
                         /\ jobs[j].user = tasks[t].af.user
                         /\ jobs[j].status = "pending"
                         /\ jobs'[j].status = "processing"
       /\ (/\ nextTask' > nextTask
           /\ nextId' = nextId
           /\ \A t \in DOMAIN tasks : tasks'[t] = tasks[t]
           /\ \A j \in DOMAIN jobs : jobs[j].status # "uploading")
          => \A j \in DOMAIN jobs :
                 jobs'[j] # jobs[j]
                     => /\ jobs[j].status = "pending"
                        /\ jobs'[j] = [jobs[j] EXCEPT !.task_id = jobs'[j].task_id]
                        /\ \A k \in DOMAIN jobs :
                               jobs[k].user = jobs[j].user
                                   => jobs[k].status # "processing"]_vars

\* A hand-off has just dispatched a user's next job (only the hand-off stores
\* 'processing' for an execution that is still queued) while a job of another
\* user is in 'processing' under its own execution.
C38_Witness ==
    \E t \in DOMAIN tasks, j, k \in DOMAIN jobs :
        /\ tasks[t].pc = "done"
        /\ jobs[j].user = jobs[tasks[t].file].user
        /\ jobs[j].status = "processing"
        /\ jobs[j].task_id \in DOMAIN tasks
        /\ tasks[jobs[j].task_id].pc = "queued"
        /\ jobs[k].user # jobs[j].user
        /\ jobs[k].status = "processing"
        /\ jobs[k].task_id \in DOMAIN tasks
        /\ tasks[jobs[k].task_id].pc \notin {"queued", "done", "dead"}

\* C39: for a track of at least min_chunk_sec seconds and a non-empty list of
\* silence points, the cut intervals of smart_split_audio tile the track: there
\* is at least one, the first starts at 0, each closed interval is non-empty and
\* ends where the next one starts, and the last one, and only the last, is open.
C39_CutsTileTheTrack ==
    (/\ split.pc \in {"export", "done"}
     /\ split.silence_points # <<>>
     /\ split.total_duration >= split.min_chunk_sec)
    => /\ split.cuts # <<>>
       /\ split.cuts[1][1] = 0
       /\ Len(split.cuts[Len(split.cuts)]) = 1
       /\ \A k \in 1..(Len(split.cuts) - 1) :
              /\ Len(split.cuts[k]) = 2
              /\ split.cuts[k][1] < split.cuts[k][2]
              /\ split.cuts[k][2] = split.cuts[k + 1][1]

\* A track cut twice whose rest after the last cut is shorter than
\* min_chunk_sec: the last cut interval was opened to take the rest in.
C39_Witness ==
    /\ split.pc = "done"
    /\ split.silence_points # <<>>
    /\ split.total_duration >= split.min_chunk_sec
    /\ Len(split.cuts) >= 2
    /\ split.start > split.cuts[Len(split.cuts)][1]
    /\ split.total_duration - split.start < split.min_chunk_sec

====
